---------------------------- MODULE Spec2Model ----------------------------
(***************************************************************************)
(* State-machine model of pygmsh's CommonGeometry facade                   *)
(* (src/pygmsh/common/geometry.py).                                        *)
(*                                                                         *)
(* The facade is driven by a client of the form                            *)
(*                                                                         *)
(*     geom = CommonGeometry(env)                                          *)
(*     with geom:                                                          *)
(*         <body: facade calls, each possibly inside try/except>           *)
(*                                                                         *)
(* with one with statement per geometry object.                            *)
(*                                                                         *)
(* The geometry engine (gmsh, and the kernel object self.env) is external: *)
(* the model records every call made to it, in order, in the log `engine`, *)
(* and draws what the engine returns from small sets.                      *)
(*                                                                         *)
(* Python values whose type the code inspects (None / int / str / list)    *)
(* are tagged records with a single field named after the type.            *)
(***************************************************************************)
EXTENDS Integers, Sequences, FiniteSets, TLC

VARIABLES
    ctx,                        \* position of the client's with statement
    exc,                        \* exception in flight in the client, or "none"
    engine,                     \* log of the calls made to gmsh / self.env
    entities,                   \* log of the entity objects constructed (Point, Line, ...)
    _TAKEN_PHYSICALGROUP_IDS,
    _RECOMBINE_ENTITIES,
    _EMBED_QUEUE,
    _TRANSFINITE_CURVE_QUEUE,
    _TRANSFINITE_SURFACE_QUEUE,
    last,                       \* the last facade call: [op, args, status, ret]
    labelled                    \* history: the explicit labels of the successful
                                \* _new_physical_group calls so far

vars == <<ctx, exc, engine, entities, _TAKEN_PHYSICALGROUP_IDS, _RECOMBINE_ENTITIES,
          _EMBED_QUEUE, _TRANSFINITE_CURVE_QUEUE, _TRANSFINITE_SURFACE_QUEUE, last,
          labelled>>

groups == <<_TAKEN_PHYSICALGROUP_IDS, labelled>>

queues == <<_RECOMBINE_ENTITIES, _EMBED_QUEUE, _TRANSFINITE_CURVE_QUEUE,
            _TRANSFINITE_SURFACE_QUEUE>>

----------------------------------------------------------------------------
(* Bounds of the model.  A call is admitted when the state it leaves stays  *)
(* within the bounds, so a call that fails is admitted in every state of   *)
(* the with body.                                                          *)

\* length of _TAKEN_PHYSICALGROUP_IDS
MaxTaken == 2
\* transform calls (translate, rotate, ...) a with body makes
MaxBodyCalls == 3
\* extrude / revolve / twist calls a with body makes
MaxExtrusions == 1
\* add_polygon calls a with body makes
MaxPolygons == 1
\* entries queued in the deferred-operation queues, all together
MaxQueue == 3
\* length of a num_layers / heights list
MaxLen == 2
\* vertices of a polygon
MaxVertices == 3

----------------------------------------------------------------------------
(* Python values.                                                          *)

None == [none |-> TRUE]
PyInt(n) == [int |-> n]
PyStr(s) == [str |-> s]
PyList(s) == [list |-> s]
PyFloat(s) == [float |-> s]

IsNone(v) == DOMAIN v = {"none"}
IsInt(v) == DOMAIN v = {"int"}
IsStr(v) == DOMAIN v = {"str"}
IsList(v) == DOMAIN v = {"list"}

Range(s) == {s[i] : i \in DOMAIN s}

\* max() of a non-empty list of integers
Max(s) == CHOOSE m \in Range(s) : \A x \in Range(s) : x <= m

Digits == <<"0", "1", "2", "3", "4", "5", "6", "7", "8", "9">>

RECURSIVE NatToStr(_)
NatToStr(n) ==
    IF n < 10 THEN Digits[n + 1]
    ELSE NatToStr(n \div 10) \o Digits[(n % 10) + 1]

\* str(n) of a Python int: its decimal digits, "-" before a negative number
IntToStr(n) == IF n < 0 THEN "-" \o NatToStr(-n) ELSE NatToStr(n)

\* the call record kept in `last`
Call(op, args, status, ret) == [op |-> op, args |-> args, status |-> status, ret |-> ret]

----------------------------------------------------------------------------
(* Entity handles: the class, the dimension and the engine tag (_ID).      *)

Entity(cls, dim, id) == [cls |-> cls, dimension |-> dim, ID |-> id, dim_tags |-> <<<<dim, id>>>>]

P1 == Entity("Point", 0, 1)
L1 == Entity("Line", 1, 1)
L2 == Entity("Line", 1, 2)
S1 == Entity("PlaneSurface", 2, 1)
S2 == Entity("Surface", 2, 2)
V1 == Entity("Volume", 3, 1)

----------------------------------------------------------------------------
(* Engine calls.                                                           *)

GmshInitialize == [fn |-> "gmsh.initialize"]
GmshModelAdd(name) == [fn |-> "gmsh.model.add", name |-> name]
GmshFinalize == [fn |-> "gmsh.finalize"]
AddPhysicalGroup(dim, tags) == [fn |-> "gmsh.model.addPhysicalGroup", dim |-> dim, tags |-> tags]
SetPhysicalName(dim, tag, name) == [fn |-> "gmsh.model.setPhysicalName", dim |-> dim, tag |-> tag, name |-> name]

LifecycleFns == {"gmsh.initialize", "gmsh.model.add", "gmsh.finalize"}

\* the calls of the functions `fns` in the engine log
CountFn(log, fns) == Cardinality({i \in DOMAIN log : log[i].fn \in fns})

InBody == ctx = "entered" /\ exc = "none"

----------------------------------------------------------------------------
(* CommonGeometry.__init__                                                 *)

Init ==
    /\ ctx = "new"
    /\ exc = "none"
    /\ engine = <<>>
    /\ entities = <<>>
    /\ _TAKEN_PHYSICALGROUP_IDS = <<>>
    /\ _RECOMBINE_ENTITIES = <<>>
    /\ _EMBED_QUEUE = <<>>
    /\ _TRANSFINITE_CURVE_QUEUE = <<>>
    /\ _TRANSFINITE_SURFACE_QUEUE = <<>>
    /\ last = Call("__init__", None, "ok", None)
    /\ labelled = {}

----------------------------------------------------------------------------
(* The with statement: __enter__, the body's exception handling, __exit__. *)

\* the engine calls of __enter__, in order
EnterCalls == <<GmshInitialize, GmshModelAdd("pygmsh model")>>

\* the engine calls of __exit__
ExitCalls == <<GmshFinalize>>

\* mutant of ExitReturn: __exit__ returns True
ExitReturn_True == [bool |-> TRUE]

\* what __exit__ returns: nothing, hence None
ExitReturn == None

\* Python's truth value of what __exit__ returned: a true value suppresses
\* the exception the body raised
Truthy(v) == ~IsNone(v)

__enter__ ==
    /\ ctx = "new"
    /\ ctx' = "entered"
    /\ engine' = engine \o EnterCalls
    /\ last' = Call("__enter__", None, "ok", None)
    /\ UNCHANGED <<exc, entities, groups, queues>>

__exit__ ==
    /\ ctx = "entered"
    /\ ctx' = "exited"
    /\ engine' = engine \o ExitCalls
    /\ exc' = IF Truthy(ExitReturn) THEN "none" ELSE exc
    /\ last' = Call("__exit__", PyStr(exc), "ok", ExitReturn)
    /\ UNCHANGED <<entities, groups, queues>>

\* the client catches the exception in flight (try/except around a call,
\* or around the whole with statement)
Except ==
    /\ exc # "none"
    /\ exc' = "none"
    /\ last' = Call("except", PyStr(exc), "ok", None)
    /\ UNCHANGED <<ctx, engine, entities, groups, queues>>

Lifecycle == __enter__ \/ __exit__ \/ Except

----------------------------------------------------------------------------
(* Physical groups.                                                        *)

Labels == {None, PyInt(1), PyInt(12), PyStr("a"), PyFloat("1.5")}

\* tags the engine may return from addPhysicalGroup
EngineTags == {1, 2}

\* a label as it is kept in `labelled`
LabelKey(label) ==
    IF IsInt(label) THEN "int:" \o IntToStr(label.int)
    ELSE IF IsStr(label) THEN "str:" \o label.str
    ELSE "other"

\* `labelled` after a call with `label` that ended with `status`
Labelled(label, status) ==
    IF status = "ok" /\ ~IsNone(label) THEN labelled \cup {LabelKey(label)} ELSE labelled

\* mutant of NewPhysicalGroup: the next free ID taken from the length of the list
NewPhysicalGroup_ByLength(taken, label) ==
    LET max_id == Len(taken)
        lab == IF IsNone(label) THEN PyInt(max_id + 1) ELSE label
    IN  IF IsInt(lab)
        THEN IF lab.int \in Range(taken)
             THEN [status |-> "AssertionError", taken |-> taken, ret |-> None]
             ELSE [status |-> "ok", taken |-> Append(taken, lab.int),
                   ret |-> PyStr(IntToStr(lab.int))]
        ELSE IF ~IsStr(lab)
             THEN [status |-> "AssertionError", taken |-> taken, ret |-> None]
             ELSE [status |-> "ok", taken |-> Append(taken, max_id + 1),
                   ret |-> PyStr("\"" \o lab.str \o "\"")]

\* the outcome of _new_physical_group on the list `taken`
NewPhysicalGroup(taken, label) ==
    LET max_id == IF taken = <<>> THEN 0 ELSE Max(taken)
        lab == IF IsNone(label) THEN PyInt(max_id + 1) ELSE label
    IN  IF IsInt(lab)
        THEN IF lab.int \in Range(taken)
             THEN [status |-> "AssertionError", taken |-> taken, ret |-> None]
             ELSE [status |-> "ok", taken |-> Append(taken, lab.int),
                   ret |-> PyStr(IntToStr(lab.int))]
        ELSE IF ~IsStr(lab)
             THEN [status |-> "AssertionError", taken |-> taken, ret |-> None]
             ELSE [status |-> "ok", taken |-> Append(taken, max_id + 1),
                   ret |-> PyStr("\"" \o lab.str \o "\"")]

_new_physical_group(label) ==
    LET r == NewPhysicalGroup(_TAKEN_PHYSICALGROUP_IDS, label)
    IN  /\ InBody
        /\ Len(r.taken) <= MaxTaken
        /\ _TAKEN_PHYSICALGROUP_IDS' = r.taken
        /\ exc' = IF r.status = "ok" THEN "none" ELSE r.status
        /\ last' = Call("_new_physical_group", [label |-> label], r.status, r.ret)
        /\ labelled' = Labelled(label, r.status)
        /\ UNCHANGED <<ctx, engine, entities, queues>>

\* the arguments `entities` of add_physical: one entity, or a list
EntityArgs ==
    {L1} \cup
    {PyList(s) : s \in {<<>>, <<L1>>, <<L2, L1>>, <<L1, S1>>, <<L1, L2, S1>>}}

\* the list add_physical works on
AsList(ents) == IF IsList(ents) THEN ents.list ELSE <<ents>>

\* mutant of DimensionCheck: the dimensions are not compared
DimensionCheck_NoAssert(es) == IF es = <<>> THEN "IndexError" ELSE "ok"

\* the dimension check of add_physical: "ok", or the exception raised
DimensionCheck(es) ==
    IF es = <<>> THEN "IndexError"
    ELSE IF \E i \in DOMAIN es : es[i].dimension # es[1].dimension THEN "AssertionError"
    ELSE "ok"

\* the outcome of add_physical on the list `taken`, the engine returning `tag`
AddPhysical(taken, ents, label, tag) ==
    LET es == AsList(ents)
        chk == DimensionCheck(es)
        r == NewPhysicalGroup(taken, label)
        dim == es[1].dimension
    IN  IF chk # "ok" THEN [status |-> chk, taken |-> taken, calls |-> <<>>]
        ELSE IF r.status # "ok" THEN [status |-> r.status, taken |-> taken, calls |-> <<>>]
        ELSE [status |-> "ok", taken |-> r.taken,
              calls |-> <<AddPhysicalGroup(dim, [i \in DOMAIN es |-> es[i].ID])>>
                        \o (IF ~IsNone(r.ret)
                            THEN <<SetPhysicalName(dim, tag, r.ret.str)>> ELSE <<>>)]

add_physical(ents, label, tag) ==
    LET r == AddPhysical(_TAKEN_PHYSICALGROUP_IDS, ents, label, tag)
    IN  /\ InBody
        /\ Len(r.taken) <= MaxTaken
        /\ _TAKEN_PHYSICALGROUP_IDS' = r.taken
        /\ engine' = engine \o r.calls
        /\ exc' = IF r.status = "ok" THEN "none" ELSE r.status
        /\ last' = Call("add_physical", [entities |-> ents, label |-> label], r.status, None)
        /\ labelled' = Labelled(label, r.status)
        /\ UNCHANGED <<ctx, entities, queues>>

PhysicalOps ==
    \/ \E label \in Labels : _new_physical_group(label)
    \/ \E ents \in EntityArgs, label \in Labels, tag \in EngineTags : add_physical(ents, label, tag)

SpecPhysical == Init /\ [][Lifecycle \/ PhysicalOps]_vars

----------------------------------------------------------------------------
(* extrude, revolve, twist.                                                *)

\* math.pi; angles are counted in quarter turns (pi/2)
Pi == 2

Angles == {1, 2, 3}

\* num_layers: None, an int, or a list
NumLayersArgs == {None, PyInt(3)} \cup {PyList([i \in 1..k |-> i]) : k \in 0..MaxLen}

\* heights: None or a list
HeightsArgs == {None} \cup {PyList([i \in 1..k |-> 10 * i]) : k \in 0..MaxLen}

translation_axis == <<1, 2, 3>>
rotation_axis == <<4, 5, 6>>
point_on_axis == <<7, 8, 9>>

\* what the engine may return from extrude / revolve / twist
OutDimTags == {<<<<2, 7>>, <<3, 8>>, <<2, 9>>, <<2, 10>>>>}

\* the recombine flags the client passes
Recombines == {TRUE}

Dummy(dim_tag) == Entity("Dummy", dim_tag[1], dim_tag[2])

\* (top, extruded, lateral) built from the engine's out_dim_tags
Extruded(out) ==
    [top |-> Dummy(out[1]), extruded |-> Dummy(out[2]),
     lateral |-> [i \in 1..(Len(out) - 2) |-> Dummy(out[i + 2])]]

\* mutant of LayerArgs: the lengths of num_layers and heights are not compared
LayerArgs_NoLengthCheck(num_layers, heights) ==
    LET nl == IF IsInt(num_layers) THEN PyList(<<num_layers.int>>) ELSE num_layers
    IN  IF IsNone(nl)
        THEN [status |-> "ok", numElements |-> <<>>, heights |-> <<>>]
        ELSE IF IsNone(heights)
        THEN [status |-> "ok", numElements |-> nl.list, heights |-> <<>>]
        ELSE [status |-> "ok", numElements |-> nl.list, heights |-> heights.list]

\* mutant of LayerArgs: without num_layers, the heights given are kept
LayerArgs_KeepHeights(num_layers, heights) ==
    LET nl == IF IsInt(num_layers) THEN PyList(<<num_layers.int>>) ELSE num_layers
        hs == IF IsNone(heights) THEN <<>> ELSE heights.list
    IN  IF IsNone(nl)
        THEN [status |-> "ok", numElements |-> <<>>, heights |-> hs]
        ELSE IF Len(nl.list) = Len(hs) \/ IsNone(heights)
        THEN [status |-> "ok", numElements |-> nl.list, heights |-> hs]
        ELSE [status |-> "AssertionError", numElements |-> <<>>, heights |-> <<>>]

\* the defaulting of num_layers / heights shared by extrude, revolve and twist:
\* the numElements and heights handed to the engine, or the failed assertion
LayerArgs(num_layers, heights) ==
    LET nl == IF IsInt(num_layers) THEN PyList(<<num_layers.int>>) ELSE num_layers
    IN  IF IsNone(nl)
        THEN [status |-> "ok", numElements |-> <<>>, heights |-> <<>>]
        ELSE IF IsNone(heights)
        THEN [status |-> "ok", numElements |-> nl.list, heights |-> <<>>]
        ELSE IF Len(nl.list) = Len(heights.list)
        THEN [status |-> "ok", numElements |-> nl.list, heights |-> heights.list]
        ELSE [status |-> "AssertionError", numElements |-> <<>>, heights |-> <<>>]

\* mutant of AngleCheck: an angle of exactly pi passes
AngleCheck_AllowsPi(angle) == IF angle <= Pi THEN "ok" ELSE "AssertionError"

\* assert angle < math.pi
AngleCheck(angle) == IF angle < Pi THEN "ok" ELSE "AssertionError"

EnvExtrude(dimTags, t, numElements, heights, recombine) ==
    [fn |-> "env.extrude", dimTags |-> dimTags, xyz |-> t,
     numElements |-> numElements, heights |-> heights, recombine |-> recombine]

EnvRevolve(dimTags, p, r, angle, numElements, heights, recombine) ==
    [fn |-> "env.revolve", dimTags |-> dimTags, xyz |-> p \o r, angle |-> angle,
     numElements |-> numElements, heights |-> heights, recombine |-> recombine]

EnvTwist(dimTags, p, t, r, angle, numElements, heights, recombine) ==
    [fn |-> "env.twist", dimTags |-> dimTags, xyz |-> p \o t \o r, angle |-> angle,
     numElements |-> numElements, heights |-> heights, recombine |-> recombine]

ExtrusionFns == {"env.extrude", "env.revolve", "env.twist"}

IsExtrusion(c) == c.fn \in ExtrusionFns

\* the engine call of extrude, or none when an assertion fails
ExtrudeCalls(input_entity, num_layers, heights, recombine) ==
    LET a == LayerArgs(num_layers, heights)
    IN  IF a.status # "ok" THEN <<>>
        ELSE <<EnvExtrude(input_entity.dim_tags, translation_axis,
                          a.numElements, a.heights, recombine)>>

\* the engine call of revolve, or none when an assertion fails
RevolveCalls(input_entity, angle, num_layers, heights, recombine) ==
    LET a == LayerArgs(num_layers, heights)
    IN  IF a.status # "ok" \/ AngleCheck(angle) # "ok" THEN <<>>
        ELSE <<EnvRevolve(input_entity.dim_tags, point_on_axis, rotation_axis, angle,
                          a.numElements, a.heights, recombine)>>

\* the engine call of twist, or none when an assertion fails
TwistCalls(input_entity, angle, num_layers, heights, recombine) ==
    LET a == LayerArgs(num_layers, heights)
    IN  IF a.status # "ok" \/ AngleCheck(angle) # "ok" THEN <<>>
        ELSE <<EnvTwist(input_entity.dim_tags, point_on_axis, translation_axis,
                        rotation_axis, angle, a.numElements, a.heights, recombine)>>

\* the result of an extrusion call: (top, extruded, lateral), or the exception
ExtrusionStatus(calls) == IF calls = <<>> THEN "AssertionError" ELSE "ok"

ExtrusionReturn(calls, out) == IF calls = <<>> THEN None ELSE Extruded(out)

extrude(input_entity, num_layers, heights, recombine, out) ==
    LET calls == ExtrudeCalls(input_entity, num_layers, heights, recombine)
    IN  /\ InBody
        /\ CountFn(engine, ExtrusionFns) + Len(calls) <= MaxExtrusions
        /\ engine' = engine \o calls
        /\ exc' = IF calls = <<>> THEN "AssertionError" ELSE "none"
        /\ last' = Call("extrude",
                        [num_layers |-> num_layers, heights |-> heights,
                         recombine |-> recombine],
                        ExtrusionStatus(calls), ExtrusionReturn(calls, out))
        /\ UNCHANGED <<ctx, entities, groups, queues>>

revolve(input_entity, angle, num_layers, heights, recombine, out) ==
    LET calls == RevolveCalls(input_entity, angle, num_layers, heights, recombine)
    IN  /\ InBody
        /\ CountFn(engine, ExtrusionFns) + Len(calls) <= MaxExtrusions
        /\ engine' = engine \o calls
        /\ exc' = IF calls = <<>> THEN "AssertionError" ELSE "none"
        /\ last' = Call("revolve",
                        [angle |-> angle, num_layers |-> num_layers, heights |-> heights,
                         recombine |-> recombine],
                        ExtrusionStatus(calls), ExtrusionReturn(calls, out))
        /\ UNCHANGED <<ctx, entities, groups, queues>>

twist(input_entity, angle, num_layers, heights, recombine, out) ==
    LET calls == TwistCalls(input_entity, angle, num_layers, heights, recombine)
    IN  /\ InBody
        /\ CountFn(engine, ExtrusionFns) + Len(calls) <= MaxExtrusions
        /\ engine' = engine \o calls
        /\ exc' = IF calls = <<>> THEN "AssertionError" ELSE "none"
        /\ last' = Call("twist",
                        [angle |-> angle, num_layers |-> num_layers, heights |-> heights,
                         recombine |-> recombine],
                        ExtrusionStatus(calls), ExtrusionReturn(calls, out))
        /\ UNCHANGED <<ctx, entities, groups, queues>>

ExtrusionOps ==
    \E num_layers \in NumLayersArgs, heights \in HeightsArgs, recombine \in Recombines,
       out \in OutDimTags :
        \/ extrude(S1, num_layers, heights, recombine, out)
        \/ \E angle \in Angles : revolve(S1, angle, num_layers, heights, recombine, out)
        \/ \E angle \in Angles : twist(S1, angle, num_layers, heights, recombine, out)

SpecExtrude == Init /\ [][Lifecycle \/ ExtrusionOps]_vars

----------------------------------------------------------------------------
(* Deferred operations: transfinite settings, recombination, embeddings.   *)

MeshTypes == {"Progression", "Bulk", "Bump"}

\* the lists handed to set_recombined_surfaces
SurfaceLists == {<<>>, <<S1>>, <<S2, S1>>, <<S1, L1>>, <<L1, S2>>, <<S1, S2, P1>>}

\* all deferred-operation entries queued
Queued ==
    Len(_TRANSFINITE_CURVE_QUEUE) + Len(_TRANSFINITE_SURFACE_QUEUE)
    + Len(_RECOMBINE_ENTITIES) + Len(_EMBED_QUEUE)

\* set_transfinite_curve: the queue afterwards, or the failed assertion
SetTransfiniteCurve(queue, curve, num_nodes, mesh_type, coeff) ==
    IF mesh_type \in {"Progression", "Bulk"}
    THEN [status |-> "ok", queue |-> Append(queue, <<curve.ID, num_nodes, mesh_type, coeff>>)]
    ELSE [status |-> "AssertionError", queue |-> queue]

set_transfinite_curve(curve, num_nodes, mesh_type, coeff) ==
    LET r == SetTransfiniteCurve(_TRANSFINITE_CURVE_QUEUE, curve, num_nodes, mesh_type, coeff)
    IN  /\ InBody
        /\ Queued - Len(_TRANSFINITE_CURVE_QUEUE) + Len(r.queue) <= MaxQueue
        /\ _TRANSFINITE_CURVE_QUEUE' = r.queue
        /\ exc' = IF r.status = "ok" THEN "none" ELSE r.status
        /\ last' = Call("set_transfinite_curve",
                        [curve |-> curve, num_nodes |-> num_nodes, mesh_type |-> mesh_type,
                         coeff |-> coeff], r.status, None)
        /\ UNCHANGED <<ctx, engine, entities, groups, _RECOMBINE_ENTITIES,
                       _EMBED_QUEUE, _TRANSFINITE_SURFACE_QUEUE>>

\* set_transfinite_surface: the queue afterwards
SetTransfiniteSurface(queue, surface, arrangement, corner_tags) ==
    Append(queue, <<surface.ID, arrangement, corner_tags>>)

set_transfinite_surface(surface, arrangement, corner_tags) ==
    /\ InBody
    /\ Queued < MaxQueue
    /\ _TRANSFINITE_SURFACE_QUEUE' =
           SetTransfiniteSurface(_TRANSFINITE_SURFACE_QUEUE, surface, arrangement, corner_tags)
    /\ last' = Call("set_transfinite_surface",
                    [surface |-> surface, arrangement |-> arrangement,
                     corner_tags |-> corner_tags], "ok", None)
    /\ UNCHANGED <<ctx, exc, engine, entities, groups, _RECOMBINE_ENTITIES,
                   _EMBED_QUEUE, _TRANSFINITE_CURVE_QUEUE>>

IsSurface(e) == e.cls \in {"PlaneSurface", "Surface"}

\* mutant of SetRecombinedSurfaces: each item is checked as it is recorded
SetRecombinedSurfaces_Partial(recombine, surfaces) ==
    LET bad == {i \in DOMAIN surfaces : ~IsSurface(surfaces[i])}
        n == IF bad = {} THEN Len(surfaces)
             ELSE (CHOOSE i \in bad : \A j \in bad : i <= j) - 1
    IN  [status |-> IF bad = {} THEN "ok" ELSE "AssertionError",
         recombine |-> recombine \o [i \in 1..n |-> surfaces[i].dim_tags[1]]]

\* set_recombined_surfaces: the list afterwards, or the failed assertion
SetRecombinedSurfaces(recombine, surfaces) ==
    IF \E i \in DOMAIN surfaces : ~IsSurface(surfaces[i])
    THEN [status |-> "AssertionError", recombine |-> recombine]
    ELSE [status |-> "ok",
          recombine |-> recombine \o [i \in DOMAIN surfaces |-> surfaces[i].dim_tags[1]]]

set_recombined_surfaces(surfaces) ==
    LET r == SetRecombinedSurfaces(_RECOMBINE_ENTITIES, surfaces)
    IN  /\ InBody
        /\ Queued - Len(_RECOMBINE_ENTITIES) + Len(r.recombine) <= MaxQueue
        /\ _RECOMBINE_ENTITIES' = r.recombine
        /\ exc' = IF r.status = "ok" THEN "none" ELSE r.status
        /\ last' = Call("set_recombined_surfaces", [surfaces |-> surfaces], r.status, None)
        /\ UNCHANGED <<ctx, engine, entities, groups, _EMBED_QUEUE,
                       _TRANSFINITE_CURVE_QUEUE, _TRANSFINITE_SURFACE_QUEUE>>

\* mutant of Embed: the entry is put at the head of the queue
Embed_AtHead(queue, input_entity, target) == <<<<input_entity, target>>>> \o queue

\* in_surface / in_volume: the embedding queue afterwards
Embed(queue, input_entity, target) == Append(queue, <<input_entity, target>>)

in_surface(input_entity, surface) ==
    /\ InBody
    /\ Queued < MaxQueue
    /\ _EMBED_QUEUE' = Embed(_EMBED_QUEUE, input_entity, surface)
    /\ last' = Call("in_surface", [input_entity |-> input_entity, target |-> surface],
                    "ok", None)
    /\ UNCHANGED <<ctx, exc, engine, entities, groups, _RECOMBINE_ENTITIES,
                   _TRANSFINITE_CURVE_QUEUE, _TRANSFINITE_SURFACE_QUEUE>>

in_volume(input_entity, volume) ==
    /\ InBody
    /\ Queued < MaxQueue
    /\ _EMBED_QUEUE' = Embed(_EMBED_QUEUE, input_entity, volume)
    /\ last' = Call("in_volume", [input_entity |-> input_entity, target |-> volume],
                    "ok", None)
    /\ UNCHANGED <<ctx, exc, engine, entities, groups, _RECOMBINE_ENTITIES,
                   _TRANSFINITE_CURVE_QUEUE, _TRANSFINITE_SURFACE_QUEUE>>

QueueOps ==
    \/ \E curve \in {L1, L2}, mesh_type \in MeshTypes : set_transfinite_curve(curve, 5, mesh_type, 1)
    \/ \E surface \in {S1, S2} : set_transfinite_surface(surface, "Left", <<>>)
    \/ \E surfaces \in SurfaceLists : set_recombined_surfaces(surfaces)
    \/ \E e \in {P1, L1} : in_surface(e, S1)
    \/ \E e \in {P1, S1} : in_volume(e, V1)

SpecQueue == Init /\ [][Lifecycle \/ QueueOps]_vars

----------------------------------------------------------------------------
(* Transformations: each forwards to one call of self.env.                 *)

EnvSynchronize == [fn |-> "env.synchronize"]
EnvTranslate(dimTags, vector) == [fn |-> "env.translate", dimTags |-> dimTags, xyz |-> vector]
EnvRotate(dimTags, point, axis, angle) == [fn |-> "env.rotate", dimTags |-> dimTags, xyz |-> point \o axis, angle |-> angle]
EnvCopy(dimTags) == [fn |-> "env.copy", dimTags |-> dimTags]
EnvSymmetrize(dimTags, coefficients) == [fn |-> "env.symmetrize", dimTags |-> dimTags, xyz |-> coefficients]
EnvDilate(dimTags, x0, abc) == [fn |-> "env.dilate", dimTags |-> dimTags, xyz |-> x0 \o abc]
EnvMirror(dimTags, abcd) == [fn |-> "env.mirror", dimTags |-> dimTags, xyz |-> abcd]

\* a with body may make one more engine call
Room == Len(engine) - CountFn(engine, LifecycleFns) < MaxBodyCalls

\* what the engine may return from copy
CopyOut == {<<<<1, 5>>>>, <<<<1, 5>>, <<1, 6>>>>}

\* the objects the client transforms
Objects == {L1, S1}

synchronize ==
    /\ InBody /\ Room
    /\ engine' = Append(engine, EnvSynchronize)
    /\ last' = Call("synchronize", None, "ok", None)
    /\ UNCHANGED <<ctx, exc, entities, groups, queues>>

translate(obj, vector) ==
    /\ InBody /\ Room
    /\ engine' = Append(engine, EnvTranslate(obj.dim_tags, vector))
    /\ last' = Call("translate", [obj |-> obj], "ok", None)
    /\ UNCHANGED <<ctx, exc, entities, groups, queues>>

rotate(obj, point, angle, axis) ==
    /\ InBody /\ Room
    /\ engine' = Append(engine, EnvRotate(obj.dim_tags, point, axis, angle))
    /\ last' = Call("rotate", [obj |-> obj], "ok", None)
    /\ UNCHANGED <<ctx, exc, entities, groups, queues>>

\* copy: the Dummy returned, or the failed assertion on the engine's answer
Copy(dim_tag) ==
    IF Len(dim_tag) = 1 THEN [status |-> "ok", ret |-> Dummy(dim_tag[1])]
    ELSE [status |-> "AssertionError", ret |-> None]

copy(obj, dim_tag) ==
    LET r == Copy(dim_tag)
    IN  /\ InBody /\ Room
        /\ engine' = Append(engine, EnvCopy(obj.dim_tags))
        /\ exc' = IF r.status = "ok" THEN "none" ELSE r.status
        /\ last' = Call("copy", [obj |-> obj], r.status, r.ret)
        /\ UNCHANGED <<ctx, entities, groups, queues>>

symmetrize(obj, coefficients) ==
    /\ InBody /\ Room
    /\ engine' = Append(engine, EnvSymmetrize(obj.dim_tags, coefficients))
    /\ last' = Call("symmetrize", [obj |-> obj], "ok", None)
    /\ UNCHANGED <<ctx, exc, entities, groups, queues>>

dilate(obj, x0, abc) ==
    /\ InBody /\ Room
    /\ engine' = Append(engine, EnvDilate(obj.dim_tags, x0, abc))
    /\ last' = Call("dilate", [obj |-> obj], "ok", None)
    /\ UNCHANGED <<ctx, exc, entities, groups, queues>>

mirror(obj, abcd) ==
    /\ InBody /\ Room
    /\ engine' = Append(engine, EnvMirror(obj.dim_tags, abcd))
    /\ last' = Call("mirror", [obj |-> obj], "ok", None)
    /\ UNCHANGED <<ctx, exc, entities, groups, queues>>

TransformOps ==
    \/ synchronize
    \/ \E obj \in Objects :
        \/ translate(obj, translation_axis)
        \/ rotate(obj, point_on_axis, 1, rotation_axis)
        \/ \E dim_tag \in CopyOut : copy(obj, dim_tag)
        \/ symmetrize(obj, <<1, 2, 3, 4>>)
        \/ dilate(obj, point_on_axis, translation_axis)
        \/ mirror(obj, <<1, 2, 3, 4>>)

SpecLife == Init /\ [][Lifecycle \/ TransformOps]_vars

----------------------------------------------------------------------------
(* add_polygon.  An entity object is known by its place in `entities`.     *)

Ref(k) == [ref |-> k]

Point(x, mesh_size) == [cls |-> "Point", x |-> x, mesh_size |-> mesh_size]
Line(p0, p1) == [cls |-> "Line", p0 |-> p0, p1 |-> p1]
CurveLoop(curves) == [cls |-> "CurveLoop", curves |-> curves]
PlaneSurface(curve_loop, holes) == [cls |-> "PlaneSurface", curve_loop |-> curve_loop, holes |-> holes]

IsCurveLoop(e) == e.cls = "CurveLoop"

\* a hole: a curve loop built elsewhere
Hole == Entity("CurveLoop", 1, 9)

\* the vertex lists X
VertexLists == {[i \in 1..n |-> <<i, 10 * i, 0>>] : n \in 0..MaxVertices}

MeshSizeArgs ==
    {None, PyFloat("0.1")}
    \cup {PyList([i \in 1..m |-> PyFloat("0." \o IntToStr(i))]) : m \in 0..MaxVertices}

HolesArgs == {None, PyList(<<>>), PyList(<<Hole>>)}

\* the checks add_polygon makes before it creates anything
PolygonChecks(X, mesh_size, holes, make_surface) ==
    IF ~IsNone(holes) /\ ~make_surface THEN "AssertionError"
    ELSE IF IsList(mesh_size) /\ Len(X) # Len(mesh_size.list) THEN "AssertionError"
    ELSE "ok"

\* the mesh size of each vertex
MeshSizes(X, mesh_size) ==
    IF IsList(mesh_size) THEN mesh_size.list ELSE [i \in 1..Len(X) |-> mesh_size]

\* the points of add_polygon: one per (x, l) of zip(X, mesh_size)
PolygonPoints(X, ms) ==
    [k \in 1..(IF Len(X) < Len(ms) THEN Len(X) ELSE Len(ms)) |-> Point(X[k], ms[k])]

\* mutant of PolygonLines: the closing line is left out
PolygonLines_Open(p) == [k \in 1..(Len(p) - 1) |-> Line(p[k], p[k + 1])]

\* the lines of add_polygon over the points p: p[k] to p[k + 1], then p[-1] to p[0]
PolygonLines(p) ==
    [k \in 1..(Len(p) - 1) |-> Line(p[k], p[k + 1])] \o <<Line(p[Len(p)], p[1])>>

\* the outcome of add_polygon on the entity log `ents`
AddPolygon(ents, X, mesh_size, holes, make_surface) ==
    LET chk == PolygonChecks(X, mesh_size, holes, make_surface)
        hs == IF IsNone(holes) THEN <<>> ELSE holes.list
        ms == MeshSizes(X, mesh_size)
        points == PolygonPoints(X, ms)
        n == Len(points)
        base == Len(ents)
        p == [k \in 1..n |-> Ref(base + k)]
        lines == PolygonLines(p)
        l == [k \in 1..Len(lines) |-> Ref(base + n + k)]
        ll == Ref(base + n + Len(lines) + 1)
        surface == IF make_surface THEN Ref(base + n + Len(lines) + 2) ELSE None
    IN  IF chk # "ok" THEN [status |-> chk, entities |-> ents, ret |-> None]
        ELSE IF n = 0 THEN [status |-> "IndexError", entities |-> ents, ret |-> None]
        ELSE [status |-> "ok",
              entities |-> ents \o points \o lines \o <<CurveLoop(l)>>
                           \o (IF make_surface THEN <<PlaneSurface(ll, hs)>> ELSE <<>>),
              ret |-> [points |-> p, lines |-> l, num_edges |-> Len(l), curve_loop |-> ll,
                       surface |-> surface, mesh_size |-> ms, dimension |-> 2]]

add_polygon(X, mesh_size, holes, make_surface) ==
    LET r == AddPolygon(entities, X, mesh_size, holes, make_surface)
    IN  /\ InBody
        /\ Cardinality({i \in DOMAIN r.entities : IsCurveLoop(r.entities[i])}) <= MaxPolygons
        /\ entities' = r.entities
        /\ exc' = IF r.status = "ok" THEN "none" ELSE r.status
        /\ last' = Call("add_polygon",
                        [X |-> X, mesh_size |-> mesh_size, holes |-> holes,
                         make_surface |-> make_surface], r.status, r.ret)
        /\ UNCHANGED <<ctx, engine, groups, queues>>

PolygonOps ==
    \E X \in VertexLists, mesh_size \in MeshSizeArgs, holes \in HolesArgs,
       make_surface \in BOOLEAN : add_polygon(X, mesh_size, holes, make_surface)

SpecPolygon == Init /\ [][Lifecycle \/ PolygonOps]_vars

----------------------------------------------------------------------------

Next == Lifecycle \/ PhysicalOps \/ ExtrusionOps \/ QueueOps \/ TransformOps \/ PolygonOps

Spec == Init /\ [][Next]_vars

----------------------------------------------------------------------------
(* Claims about physical groups (SpecPhysical).                            *)

IsPrefix(s, t) == Len(s) <= Len(t) /\ SubSeq(t, 1, Len(s)) = s

NoDuplicates(s) == \A i, j \in DOMAIN s : s[i] = s[j] => i = j

\* C1, as claimed: a call of _new_physical_group or add_physical whose label
\* (integer or string) was the label of an earlier successful call fails, leaves
\* _TAKEN_PHYSICALGROUP_IDS unchanged and registers nothing with the engine.
C1_UniqueLabels ==
    [][(/\ last'.op \in {"_new_physical_group", "add_physical"}
        /\ LabelKey(last'.args.label) \in labelled)
       => (/\ last'.status # "ok"
           /\ _TAKEN_PHYSICALGROUP_IDS' = _TAKEN_PHYSICALGROUP_IDS
           /\ engine' = engine)]_vars

\* the entities of an add_physical call differ in dimension from the first
Mismatch(es) == \E i \in DOMAIN es : es[i].dimension # es[1].dimension

\* add_physical rejected a dimension mismatch: nothing reserved, no engine call
RejectsMismatch ==
    (last'.op = "add_physical" /\ Mismatch(AsList(last'.args.entities)))
    => (/\ last'.status = "AssertionError"
        /\ _TAKEN_PHYSICALGROUP_IDS' = _TAKEN_PHYSICALGROUP_IDS
        /\ engine' = engine)

\* add_physical reserved one ID and called addPhysicalGroup once, with the
\* dimension and the IDs in order, and then setPhysicalName once
RegistersGroup ==
    LET es == AsList(last'.args.entities)
    IN  /\ last'.status = "ok"
        /\ Len(_TAKEN_PHYSICALGROUP_IDS') = Len(_TAKEN_PHYSICALGROUP_IDS) + 1
        /\ IsPrefix(_TAKEN_PHYSICALGROUP_IDS, _TAKEN_PHYSICALGROUP_IDS')
        /\ Len(engine') = Len(engine) + 2
        /\ IsPrefix(engine, engine')
        /\ engine'[Len(engine) + 1]
               = AddPhysicalGroup(es[1].dimension, [i \in DOMAIN es |-> es[i].ID])
        /\ engine'[Len(engine) + 2].fn = "gmsh.model.setPhysicalName"
        /\ engine'[Len(engine) + 2].dim = es[1].dimension

\* C2, as claimed: a dimension mismatch is rejected before a label is reserved;
\* whenever all dimensions agree, one ID is reserved and the group is registered.
C2_AsClaimed ==
    [][/\ RejectsMismatch
       /\ (last'.op = "add_physical" /\ ~Mismatch(AsList(last'.args.entities)))
          => RegistersGroup]_vars

\* the label can be reserved: None, a string, or an integer not yet taken
LabelFree(label, taken) ==
    IsNone(label) \/ IsStr(label) \/ (IsInt(label) /\ label.int \notin Range(taken))

\* C2, amended: a dimension mismatch is rejected before a label is reserved;
\* when the list is not empty, all dimensions agree and the label is None, a
\* string or an integer not yet taken, one ID is reserved and the group is
\* registered (addPhysicalGroup once, then setPhysicalName once).
C2_DimensionCheck ==
    [][/\ RejectsMismatch
       /\ (/\ last'.op = "add_physical"
           /\ AsList(last'.args.entities) # <<>>
           /\ ~Mismatch(AsList(last'.args.entities))
           /\ LabelFree(last'.args.label, _TAKEN_PHYSICALGROUP_IDS))
          => RegistersGroup]_vars

\* add_physical registered two lines given as [L2, L1], and before that a
\* single entity given without a list
C2_Witness ==
    /\ last.op = "add_physical" /\ last.status = "ok"
    /\ last.args.entities = PyList(<<L2, L1>>)
    /\ Len(engine) = 6
    /\ engine[3] = AddPhysicalGroup(1, <<1>>)
    /\ engine[5] = AddPhysicalGroup(1, <<2, 1>>)

\* str() of the IDs the model can reserve
Decimals == <<"1", "2", "3", "4", "5", "6", "7", "8", "9", "10", "11", "12", "13", "14",
              "15", "16", "17", "18">>

\* the next free ID: max(taken) + 1, or 1 when nothing is taken
NextFree(taken) ==
    IF taken = <<>> THEN 1
    ELSE 1 + CHOOSE m \in Range(taken) : \A x \in Range(taken) : x <= m

\* C8: _TAKEN_PHYSICALGROUP_IDS never holds a duplicate; a successful call
\* appends exactly one ID and a failed call none; label None reserves the next
\* free ID and returns its decimal string; a string label reserves the next free
\* ID and returns the label in double quotes.
C8_Allocation ==
    [][/\ NoDuplicates(_TAKEN_PHYSICALGROUP_IDS')
       /\ (last'.op \in {"_new_physical_group", "add_physical"})
          => IF last'.status = "ok"
             THEN /\ Len(_TAKEN_PHYSICALGROUP_IDS') = Len(_TAKEN_PHYSICALGROUP_IDS) + 1
                  /\ IsPrefix(_TAKEN_PHYSICALGROUP_IDS, _TAKEN_PHYSICALGROUP_IDS')
             ELSE _TAKEN_PHYSICALGROUP_IDS' = _TAKEN_PHYSICALGROUP_IDS
       /\ (last'.op = "_new_physical_group" /\ IsNone(last'.args.label))
          => /\ last'.status = "ok"
             /\ _TAKEN_PHYSICALGROUP_IDS'
                    = Append(_TAKEN_PHYSICALGROUP_IDS, NextFree(_TAKEN_PHYSICALGROUP_IDS))
             /\ last'.ret = PyStr(Decimals[NextFree(_TAKEN_PHYSICALGROUP_IDS)])
       /\ (last'.op = "_new_physical_group" /\ IsStr(last'.args.label))
          => /\ last'.status = "ok"
             /\ _TAKEN_PHYSICALGROUP_IDS'
                    = Append(_TAKEN_PHYSICALGROUP_IDS, NextFree(_TAKEN_PHYSICALGROUP_IDS))
             /\ last'.ret = PyStr("\"" \o last'.args.label.str \o "\"")]_vars

\* label None after the integer label 12: 13 is reserved and "13" returned
C8_Witness ==
    /\ last.op = "_new_physical_group" /\ IsNone(last.args.label)
    /\ _TAKEN_PHYSICALGROUP_IDS = <<12, 13>>
    /\ last.ret = PyStr("13")

----------------------------------------------------------------------------
(* Claims about extrude, revolve and twist (SpecExtrude).                  *)

\* the length of num_layers, an integer counting as a list of length 1
LayersLen(num_layers) == IF IsInt(num_layers) THEN 1 ELSE Len(num_layers.list)

\* num_layers and heights are both given and differ in length
LengthsDiffer(args) ==
    /\ ~IsNone(args.num_layers)
    /\ ~IsNone(args.heights)
    /\ LayersLen(args.num_layers) # Len(args.heights.list)

\* the engine calls made by the step
NewCalls == [i \in 1..(Len(engine') - Len(engine)) |-> engine'[Len(engine) + i]]

\* C3: when num_layers and heights are both given and differ in length, extrude,
\* revolve and twist fail and the engine is not called; every extrusion call the
\* engine receives has heights empty or as long as numElements.
C3_MatchingLengths ==
    [][/\ IsPrefix(engine, engine')
       /\ (last'.op \in {"extrude", "revolve", "twist"} /\ LengthsDiffer(last'.args))
          => (last'.status = "AssertionError" /\ engine' = engine)
       /\ \A i \in DOMAIN NewCalls :
              IsExtrusion(NewCalls[i])
              => \/ NewCalls[i].heights = <<>>
                 \/ Len(NewCalls[i].heights) = Len(NewCalls[i].numElements)]_vars

\* revolve was refused for a list of two layers with one height, the angle
\* being below pi
C3_Witness ==
    /\ last.op = "revolve" /\ last.status = "AssertionError"
    /\ last.args.angle < Pi
    /\ last.args.num_layers = PyList(<<1, 2>>)
    /\ last.args.heights = PyList(<<10>>)

\* C4: revolve and twist reach the engine only with angle < pi: with angle >= pi
\* they fail and make no engine call; extrude checks no angle, it reaches the
\* engine whenever its num_layers and heights are compatible.
C4_AngleBound ==
    [][/\ (last'.op \in {"revolve", "twist"} /\ last'.args.angle >= Pi)
          => (last'.status = "AssertionError" /\ engine' = engine)
       /\ (last'.op \in {"revolve", "twist"} /\ last'.args.angle < Pi
           /\ ~LengthsDiffer(last'.args))
          => (last'.status = "ok" /\ Len(engine') = Len(engine) + 1)
       /\ \A i \in DOMAIN NewCalls :
              NewCalls[i].fn \in {"env.revolve", "env.twist"} => NewCalls[i].angle < Pi
       /\ (last'.op = "extrude" /\ ~LengthsDiffer(last'.args))
          => /\ last'.status = "ok"
             /\ Len(engine') = Len(engine) + 1
             /\ engine'[Len(engine')].fn = "env.extrude"]_vars

\* twist was refused for an angle of exactly pi, its layers being compatible
C4_Witness ==
    /\ last.op = "twist" /\ last.status = "AssertionError"
    /\ last.args.angle = Pi
    /\ ~LengthsDiffer(last.args)

\* the extrusion call the step made
TheCall == engine'[Len(engine')]

\* the engine function behind a facade method
EnvFn(op) == "env." \o op

\* C5: extrude, revolve and twist default alike: an integer num_layers n reaches
\* the engine as numElements = [n]; num_layers None as numElements = [] and
\* heights = [] whatever heights was passed; heights None as heights = []; a list
\* num_layers with a list heights of equal length unchanged.
C5_Defaulting ==
    [][(last'.op \in {"extrude", "revolve", "twist"} /\ last'.status = "ok")
       => LET nl == last'.args.num_layers
              hs == last'.args.heights
          IN  /\ Len(engine') = Len(engine) + 1
              /\ TheCall.fn = EnvFn(last'.op)
              /\ IsInt(nl) => TheCall.numElements = <<nl.int>>
              /\ IsNone(nl) => (TheCall.numElements = <<>> /\ TheCall.heights = <<>>)
              /\ (~IsNone(nl) /\ IsNone(hs)) => TheCall.heights = <<>>
              /\ IsList(nl) => TheCall.numElements = nl.list
              /\ (~IsNone(nl) /\ IsList(hs)) => TheCall.heights = hs.list]_vars

\* extrude was called without num_layers and with two heights: the engine got
\* no layers and no heights
C5_Witness ==
    /\ last.op = "extrude" /\ last.status = "ok"
    /\ IsNone(last.args.num_layers)
    /\ last.args.heights = PyList(<<10, 20>>)
    /\ engine[Len(engine)].fn = "env.extrude"
    /\ engine[Len(engine)].heights = <<>>

----------------------------------------------------------------------------
(* Claims about the deferred-operation queues (SpecQueue).                 *)

QueueOpNames == {"set_transfinite_curve", "set_transfinite_surface", "in_surface", "in_volume"}

\* C6: each successful set_transfinite_curve, set_transfinite_surface, in_surface
\* and in_volume call appends one entry, built from its arguments, at the end of
\* its queue (in_surface and in_volume share _EMBED_QUEUE) and leaves the other
\* queues alone; no step removes or reorders an entry; set_transfinite_curve with
\* a mesh_type other than "Progression" and "Bulk" fails and appends nothing.
C6_Accumulation ==
    [][/\ IsPrefix(_TRANSFINITE_CURVE_QUEUE, _TRANSFINITE_CURVE_QUEUE')
       /\ IsPrefix(_TRANSFINITE_SURFACE_QUEUE, _TRANSFINITE_SURFACE_QUEUE')
       /\ IsPrefix(_EMBED_QUEUE, _EMBED_QUEUE')
       /\ last'.op = "set_transfinite_curve"
          => LET a == last'.args
             IN  IF a.mesh_type \in {"Progression", "Bulk"}
                 THEN /\ last'.status = "ok"
                      /\ _TRANSFINITE_CURVE_QUEUE'
                             = Append(_TRANSFINITE_CURVE_QUEUE,
                                      <<a.curve.ID, a.num_nodes, a.mesh_type, a.coeff>>)
                      /\ UNCHANGED <<_TRANSFINITE_SURFACE_QUEUE, _EMBED_QUEUE>>
                 ELSE /\ last'.status = "AssertionError"
                      /\ UNCHANGED <<_TRANSFINITE_CURVE_QUEUE, _TRANSFINITE_SURFACE_QUEUE,
                                     _EMBED_QUEUE>>
       /\ last'.op = "set_transfinite_surface"
          => LET a == last'.args
             IN  /\ last'.status = "ok"
                 /\ _TRANSFINITE_SURFACE_QUEUE'
                        = Append(_TRANSFINITE_SURFACE_QUEUE,
                                 <<a.surface.ID, a.arrangement, a.corner_tags>>)
                 /\ UNCHANGED <<_TRANSFINITE_CURVE_QUEUE, _EMBED_QUEUE>>
       /\ last'.op \in {"in_surface", "in_volume"}
          => LET a == last'.args
             IN  /\ last'.status = "ok"
                 /\ _EMBED_QUEUE' = Append(_EMBED_QUEUE, <<a.input_entity, a.target>>)
                 /\ UNCHANGED <<_TRANSFINITE_CURVE_QUEUE, _TRANSFINITE_SURFACE_QUEUE>>
       /\ last'.op \notin QueueOpNames
          => UNCHANGED <<_TRANSFINITE_CURVE_QUEUE, _TRANSFINITE_SURFACE_QUEUE,
                         _EMBED_QUEUE>>]_vars

\* in_volume, then set_transfinite_curve, then in_surface: the embeddings are
\* interleaved in _EMBED_QUEUE in call order
C6_Witness ==
    /\ last.op = "in_surface"
    /\ _EMBED_QUEUE = <<<<P1, V1>>, <<L1, S1>>>>
    /\ _TRANSFINITE_CURVE_QUEUE = <<<<2, 5, "Bulk", 1>>>>

\* C9: set_recombined_surfaces checks every item before it records anything: with
\* an item that is no PlaneSurface or Surface it fails and _RECOMBINE_ENTITIES is
\* unchanged; otherwise the first dim_tag of each surface is appended in order;
\* no other queue and no physical-group ID changes.
C9_AllOrNothing ==
    [][last'.op = "set_recombined_surfaces"
       => LET ss == last'.args.surfaces
          IN  /\ IF \E i \in DOMAIN ss : ss[i].cls \notin {"PlaneSurface", "Surface"}
                 THEN /\ last'.status = "AssertionError"
                      /\ _RECOMBINE_ENTITIES' = _RECOMBINE_ENTITIES
                 ELSE /\ last'.status = "ok"
                      /\ _RECOMBINE_ENTITIES'
                             = _RECOMBINE_ENTITIES
                               \o [i \in DOMAIN ss |-> <<ss[i].dimension, ss[i].ID>>]
              /\ UNCHANGED <<_EMBED_QUEUE, _TRANSFINITE_CURVE_QUEUE,
                             _TRANSFINITE_SURFACE_QUEUE, _TAKEN_PHYSICALGROUP_IDS>>]_vars

\* a list of two surfaces and a point was refused after one surface had been
\* recorded by an earlier call
C9_Witness ==
    /\ last.op = "set_recombined_surfaces" /\ last.status = "AssertionError"
    /\ last.args.surfaces = <<S1, S2, P1>>
    /\ _RECOMBINE_ENTITIES = <<<<2, 1>>>>
    /\ _EMBED_QUEUE # <<>>

----------------------------------------------------------------------------
(* Claims about the with statement (SpecLife).                             *)

\* the engine log at each position of the with statement: initialize and then
\* the model first, finalize once and last, the body's calls in between
LifecycleOrder ==
    /\ ctx = "new" => engine = <<>>
    /\ ctx # "new"
       => /\ Len(engine) >= 2
          /\ engine[1] = GmshInitialize
          /\ engine[2] = GmshModelAdd("pygmsh model")
          /\ CountFn(engine, {"gmsh.initialize"}) = 1
          /\ CountFn(engine, {"gmsh.model.add"}) = 1
    /\ ctx = "entered" => CountFn(engine, {"gmsh.finalize"}) = 0
    /\ ctx = "exited"
       => /\ CountFn(engine, {"gmsh.finalize"}) = 1
          /\ engine[Len(engine)] = GmshFinalize

\* C7: entering calls gmsh.initialize() and then adds the model, before any call
\* of the body; leaving calls gmsh.finalize() exactly once, also when the body
\* raised, and does not suppress the exception; no engine call of the body comes
\* before initialize or after finalize.
C7_Lifecycle ==
    [][/\ LifecycleOrder'
       /\ last'.op = "__enter__" => engine' = <<GmshInitialize, GmshModelAdd("pygmsh model")>>
       /\ last'.op = "__exit__" => (engine' = Append(engine, GmshFinalize) /\ exc' = exc)
       /\ last'.op \notin {"__enter__", "__exit__"}
          => /\ IsPrefix(engine, engine')
             /\ \A i \in DOMAIN NewCalls : NewCalls[i].fn \notin LifecycleFns
             /\ engine' # engine => (ctx = "entered" /\ ctx' = "entered")]_vars

\* the body made two engine calls, the second raised, and the context was left
\* with the exception still in flight
C7_Witness ==
    /\ ctx = "exited" /\ exc = "AssertionError"
    /\ last.op = "__exit__"
    /\ Len(engine) = 5
    /\ engine[4].fn = "env.copy"

----------------------------------------------------------------------------
(* Claims about add_polygon (SpecPolygon).                                 *)

\* the entity objects the step constructed
NewEntities == [i \in 1..(Len(entities') - Len(entities)) |-> entities'[Len(entities) + i]]

\* C10: for n >= 1 vertices add_polygon creates n points in order, then n lines,
\* line k joining point k to point (k + 1) mod n, then one curve loop over the
\* lines in order, and a plane surface only when make_surface is true; it fails
\* its assertion before creating anything when holes are given with make_surface
\* false or when mesh_size is a list of another length than X.
C10_ClosedBoundary ==
    [][last'.op = "add_polygon"
       => LET a == last'.args
              n == Len(a.X)
              b == Len(entities)
              new == NewEntities
          IN  /\ IsPrefix(entities, entities')
              /\ IF \/ (~IsNone(a.holes) /\ ~a.make_surface)
                    \/ (IsList(a.mesh_size) /\ Len(a.mesh_size.list) # n)
                 THEN last'.status = "AssertionError" /\ entities' = entities
                 ELSE n >= 1
                      => /\ last'.status = "ok"
                         /\ Len(new) = 2 * n + 1 + (IF a.make_surface THEN 1 ELSE 0)
                         /\ \A k \in 1..n :
                                /\ new[k].cls = "Point"
                                /\ new[k].x = a.X[k]
                                /\ new[n + k].cls = "Line"
                                /\ new[n + k].p0 = Ref(b + k)
                                /\ new[n + k].p1 = Ref(b + (k % n) + 1)
                         /\ new[2 * n + 1].cls = "CurveLoop"
                         /\ new[2 * n + 1].curves = [k \in 1..n |-> Ref(b + n + k)]
                         /\ a.make_surface
                            => /\ new[2 * n + 2].cls = "PlaneSurface"
                               /\ new[2 * n + 2].curve_loop = Ref(b + 2 * n + 1)]_vars

\* a triangle was built without a surface: three points, three lines, one loop
C10_Witness ==
    /\ last.op = "add_polygon" /\ last.status = "ok"
    /\ Len(last.args.X) = 3
    /\ ~last.args.make_surface
    /\ Len(entities) = 7
    /\ entities[6] = Line(Ref(3), Ref(1))

=============================================================================
